---- MODULE Spec2Model ----
(***************************************************************************)
(* Model of the ephemeral-message service of src/server.js and its         *)
(* Mongoose model src/models/Message.js: the POST /v1/create and           *)
(* GET /v1/message/:id handlers, the wall clock, the MongoDB collection    *)
(* and its TTL monitor.                                                    *)
(*                                                                         *)
(* Time is in milliseconds since the start of the run.  A string is kept   *)
(* run-length encoded: a sequence of runs [ch, n] in which neighbouring    *)
(* runs have different characters, so that two strings are equal exactly   *)
(* when their encodings are.  A request field that may be missing is a     *)
(* sequence of length 0 or 1.                                              *)
(***************************************************************************)
EXTENDS Integers, Sequences, FiniteSets, TLC

VARIABLES
    now,       \* the wall clock read by Date.now() and new Date(), in ms
    ticks,     \* how many times the clock has advanced
    store,     \* the documents of the messages collection
    created,   \* history: every document inserted, with its request content
    reapedAt,  \* history: every document the TTL monitor removed, and when
    slots,     \* per handler: the request it serves, its locals, its response
    nextId,    \* the next ObjectId a new document receives
    nreq,      \* how many requests have been received
    okCreates, \* history: how many creates were answered 201
    stack,     \* the layers of the Express router, in registration order
    loaded,    \* how many statements of the module script have run
    connect,   \* the mongoose.connect promise: idle, pending, resolved, rejected
    served     \* history: every request answered, and the layer that answered

routing == <<stack, loaded, connect, served>>

vars == <<now, ticks, store, created, reapedAt, slots, nextId, nreq, okCreates,
          stack, loaded, connect, served>>

----------------------------------------------------------------------------
(* Program constants *)

TTL == 12 * 60 * 60 * 1000

MaxContent == 5000

IdLength == 24

ErrEmpty == "Pesan tidak boleh kosong"
ErrTooLong == "Pesan maksimal 5000 karakter"
ErrInvalidId == "ID pesan tidak valid"
ErrNotFound == "Pesan tidak ditemukan atau sudah kadaluarsa"
ErrGone == "Pesan sudah kadaluarsa"
ErrServer == "Terjadi kesalahan server"

(* The create handler appends the message of the error it caught.          *)
ErrServerWith(message) == ErrServer \o ": " \o message

----------------------------------------------------------------------------
(* Bounds of the model *)

MaxTicks == 1

MaxRequests == 3

MaxCreates == 2

(* How many records are built where fetches, the clock and the TTL monitor *)
(* are explored as well.                                                   *)
MaxRecords == 1

MaxRuns == 3

(* How many requests the router is given *)
MaxRouted == 2

Procs == {1, 2}

TickSteps == {1, TTL, TTL + 1}

(* What the clock may advance by between the two Date.now() of one         *)
(* document construction.                                                  *)
BuildSteps == {0, 1}

----------------------------------------------------------------------------
(* Strings *)

Chars == {" ", "a"}

RunLens == {1, MaxContent}

Run == [ch : Chars, n : RunLens]

Normal(s) == \A i \in 1..(Len(s) - 1) : s[i].ch # s[i + 1].ch

Strings == UNION {{s \in [1..k -> Run] : Normal(s)} : k \in 0..MaxRuns}

RECURSIVE StrLen(_)
StrLen(s) == IF s = <<>> THEN 0 ELSE s[1].n + StrLen(Tail(s))

IsSpace(c) == c = " "

RECURSIVE TrimStart(_)
TrimStart(s) ==
    IF s # <<>> /\ IsSpace(s[1].ch) THEN TrimStart(Tail(s)) ELSE s

RECURSIVE TrimEnd(_)
TrimEnd(s) ==
    IF s # <<>> /\ IsSpace(s[Len(s)].ch)
    THEN TrimEnd(SubSeq(s, 1, Len(s) - 1))
    ELSE s

TrimLeadingOnly(s) == TrimStart(s)

Trim(s) == TrimEnd(TrimStart(s))

----------------------------------------------------------------------------
(* Identifiers.  A request id is described by its length, by whether all   *)
(* its characters are hexadecimal digits, and by a key that tells ids of   *)
(* one shape apart.  Key 0 is never generated.                             *)

NoId == [len |-> 0, hex |-> TRUE, key |-> 0]

ObjectIdString(k) == [len |-> IdLength, hex |-> TRUE, key |-> k]

IdInputs ==
    {ObjectIdString(k) : k \in 0..MaxCreates}
        \cup {[len |-> IdLength, hex |-> FALSE, key |-> 0],
              NoId,
              [len |-> IdLength - 1, hex |-> TRUE, key |-> 1],
              [len |-> IdLength + 1, hex |-> TRUE, key |-> 1]}

ContentInputs == {<<>>} \cup {<<s>> : s \in Strings}

(* The request bodies used where time and concurrency are explored: no     *)
(* content, a short text padded with spaces, a text of the maximal length  *)
(* behind one space.                                                       *)
SampleContents ==
    {<<>>,
     <<(<<[ch |-> " ", n |-> 1], [ch |-> "a", n |-> 1], [ch |-> " ", n |-> 1]>>)>>,
     <<(<<[ch |-> " ", n |-> 1], [ch |-> "a", n |-> MaxContent]>>)>>}

----------------------------------------------------------------------------
(* Handler slots *)

Idle ==
    [op |-> "idle", pc |-> "idle", content |-> <<>>, id |-> NoId,
     message |-> <<>>, sampled |-> <<>>, status |-> 0, error |-> "",
     data |-> <<>>, cause |-> ""]

Free(p) == slots[p].pc \in {"idle", "done"}

FirstFree(p) == Free(p) /\ \A q \in Procs : q < p => ~Free(q)

Response(req, st, err, dat, why) ==
    [req EXCEPT !.pc = "done", !.status = st, !.error = err, !.data = dat,
                !.cause = why]

----------------------------------------------------------------------------
(* The Mongoose schema of Message *)

SchemaTrim(s) == Trim(s)

SchemaRequired(s) == s # <<>>

SchemaMaxLength(s) == StrLen(s) <= MaxContent

SchemaValid(doc) == SchemaRequired(doc.content) /\ SchemaMaxLength(doc.content)

----------------------------------------------------------------------------
(* POST /v1/create *)

Falsy(c) == c = <<>> \/ c[1] = <<>>

EmptyCheckWithoutTrim(c) == Falsy(c)

EmptyCheck(c) == Falsy(c) \/ Trim(c[1]) = <<>>

TooLongCheckWrongLimit(c) == StrLen(c[1]) > 10 * MaxContent

TooLongCheck(c) == StrLen(c[1]) > MaxContent

NewMessageFixedId(c, d) ==
    [_id |-> 1,
     content |-> SchemaTrim(c),
     createdAt |-> now,
     expiresAt |-> now + d + TTL]

(* new Message({ content }): the content setter trims, _id is a fresh      *)
(* ObjectId, createdAt is Date.now() and expiresAt is a second Date.now()  *)
(* plus twelve hours; d is what the clock advances between the two reads.  *)
NewMessage(c, d) ==
    [_id |-> nextId,
     content |-> SchemaTrim(c),
     createdAt |-> now,
     expiresAt |-> now + d + TTL]

(* The handler from the arrival of the request to its first await: the     *)
(* two checks, then the construction of the document.  The code between    *)
(* two awaits runs without another handler interleaving, but the clock     *)
(* may advance by d while it runs.                                         *)
Create(p, c, d) ==
    /\ FirstFree(p)
    /\ nreq < MaxRequests
    /\ d = 0 \/ ticks < MaxTicks
    /\ nreq' = nreq + 1
    /\ LET req == [Idle EXCEPT !.op = "create", !.content = c] IN
       IF EmptyCheck(c)
       THEN /\ slots' = [slots EXCEPT ![p] =
                           Response(req, 400, ErrEmpty, <<>>, "EmptyContent")]
            /\ UNCHANGED <<now, ticks, nextId>>
       ELSE IF TooLongCheck(c)
       THEN /\ slots' = [slots EXCEPT ![p] =
                           Response(req, 400, ErrTooLong, <<>>, "TooLong")]
            /\ UNCHANGED <<now, ticks, nextId>>
       ELSE /\ nextId <= MaxCreates
            /\ slots' = [slots EXCEPT ![p] =
                           [req EXCEPT !.pc = "save",
                                       !.message = <<NewMessage(Trim(c[1]), d)>>]]
            /\ nextId' = nextId + 1
            /\ now' = now + d
            /\ ticks' = IF d = 0 THEN ticks ELSE ticks + 1
    /\ UNCHANGED <<store, created, reapedAt, okCreates, routing>>

(* What await Message.create(...) can end in once the document is valid:  *)
(* the insert is applied and acknowledged; it is not applied and the call  *)
(* rejects; it is applied but its acknowledgement does not arrive within   *)
(* the socket timeout, and the call rejects.                               *)
InsertOutcomes == {"acked", "failed", "unacked"}

(* The handler answering 201 without waiting for what the insert ends in. *)
CreateSaveNotAwaited(p) ==
    /\ slots[p].op = "create" /\ slots[p].pc = "save"
    /\ LET doc == slots[p].message[1]
           rec == [raw |-> slots[p].content[1], doc |-> doc]
       IN
       \E outcome \in InsertOutcomes :
          /\ IF SchemaValid(doc) /\ outcome # "failed"
             THEN store' = store \cup {doc} /\ created' = created \cup {rec}
             ELSE UNCHANGED <<store, created>>
          /\ okCreates' = okCreates + 1
          /\ slots' = [slots EXCEPT ![p] =
                         Response(@, 201, "",
                                  <<[id |-> ObjectIdString(doc._id),
                                     expiresAt |-> doc.expiresAt]>>,
                                  IF SchemaValid(doc) /\ outcome = "acked"
                                  THEN "" ELSE "StoreError")]
    /\ UNCHANGED <<now, ticks, reapedAt, nextId, nreq, routing>>

(* await Message.create(...) settles: validation, then the insert; then    *)
(* the 201 response, or the catch block's 500.                             *)
CreateSave(p) ==
    /\ slots[p].op = "create" /\ slots[p].pc = "save"
    /\ LET doc == slots[p].message[1]
           rec == [raw |-> slots[p].content[1], doc |-> doc]
       IN
       \E outcome \in InsertOutcomes :
          IF ~SchemaValid(doc)
          THEN /\ slots' = [slots EXCEPT ![p] =
                              Response(@, 500, ErrServerWith("Message validation failed"),
                                       <<>>, "ValidationError")]
               /\ UNCHANGED <<store, created, okCreates>>
          ELSE IF outcome = "failed"
          THEN /\ slots' = [slots EXCEPT ![p] =
                              Response(@, 500, ErrServerWith("store error"),
                                       <<>>, "StoreError")]
               /\ UNCHANGED <<store, created, okCreates>>
          ELSE IF outcome = "unacked"
          THEN /\ store' = store \cup {doc}
               /\ created' = created \cup {rec}
               /\ slots' = [slots EXCEPT ![p] =
                              Response(@, 500, ErrServerWith("store error"),
                                       <<>>, "StoreError")]
               /\ UNCHANGED okCreates
          ELSE /\ store' = store \cup {doc}
               /\ created' = created \cup {rec}
               /\ okCreates' = okCreates + 1
               /\ slots' = [slots EXCEPT ![p] =
                              Response(@, 201, "",
                                       <<[id |-> ObjectIdString(doc._id),
                                          expiresAt |-> doc.expiresAt]>>, "")]
    /\ UNCHANGED <<now, ticks, reapedAt, nextId, nreq, routing>>

----------------------------------------------------------------------------
(* The collection *)

FindById(k) == {m \in store : m._id = k}

DeleteById(k) == {m \in store : m._id # k}

(* A query by _id casts the string to an ObjectId first: a string of 24    *)
(* characters casts only if all of them are hexadecimal digits, and the    *)
(* query rejects with a CastError otherwise.                               *)
CastsToObjectId(id) == id.len = IdLength /\ id.hex

----------------------------------------------------------------------------
(* GET /v1/message/:id *)

IdShapeTooShortOnly(id) == id.len = 0 \/ id.len < IdLength

IdShapeInvalid(id) == id.len = 0 \/ id.len # IdLength

IsExpiredOffByOne(t, m) == t > m.expiresAt + 1

IsExpired(t, m) == t > m.expiresAt

(* The handler from the arrival of the request to the answer of findById. *)
Fetch(p, id) ==
    /\ FirstFree(p)
    /\ nreq < MaxRequests
    /\ nreq' = nreq + 1
    /\ LET req == [Idle EXCEPT !.op = "fetch", !.id = id] IN
       IF IdShapeInvalid(id)
       THEN slots' = [slots EXCEPT ![p] =
                        Response(req, 400, ErrInvalidId, <<>>, "InvalidId")]
       ELSE IF ~CastsToObjectId(id)
       THEN slots' = [slots EXCEPT ![p] =
                        Response(req, 500, ErrServer, <<>>, "CastError")]
       ELSE \E answered \in BOOLEAN :
               IF ~answered
               THEN slots' = [slots EXCEPT ![p] =
                                Response(req, 500, ErrServer, <<>>, "StoreError")]
               ELSE IF FindById(id.key) = {}
               THEN slots' = [slots EXCEPT ![p] =
                                Response(req, 404, ErrNotFound, <<>>, "NotFound")]
               ELSE \E m \in FindById(id.key) :
                       slots' = [slots EXCEPT ![p] =
                                   [req EXCEPT !.pc = "expiry", !.message = <<m>>]]
    /\ UNCHANGED <<now, ticks, store, created, reapedAt, nextId, okCreates, routing>>

(* The handler after findById answered with a document, deleting the      *)
(* document it returns.                                                    *)
FetchExpiryDeletesOnRead(p) ==
    /\ slots[p].op = "fetch" /\ slots[p].pc = "expiry"
    /\ LET m == slots[p].message[1] IN
       IF IsExpired(now, m)
       THEN /\ slots' = [slots EXCEPT ![p].pc = "delete",
                                      ![p].sampled = <<now>>]
            /\ UNCHANGED store
       ELSE /\ slots' = [slots EXCEPT ![p].pc = "done",
                                      ![p].sampled = <<now>>,
                                      ![p].status = 200,
                                      ![p].data = <<[content |-> m.content,
                                                     createdAt |-> m.createdAt,
                                                     expiresAt |-> m.expiresAt]>>]
            /\ store' = DeleteById(m._id)
    /\ UNCHANGED <<now, ticks, created, reapedAt, nextId, nreq, okCreates, routing>>

(* The handler after findById answered with a document: the expiry check   *)
(* and the success response.                                               *)
FetchExpiry(p) ==
    /\ slots[p].op = "fetch" /\ slots[p].pc = "expiry"
    /\ LET m == slots[p].message[1] IN
       IF IsExpired(now, m)
       THEN slots' = [slots EXCEPT ![p].pc = "delete",
                                   ![p].sampled = <<now>>]
       ELSE slots' = [slots EXCEPT ![p].pc = "done",
                                   ![p].sampled = <<now>>,
                                   ![p].status = 200,
                                   ![p].data = <<[content |-> m.content,
                                                  createdAt |-> m.createdAt,
                                                  expiresAt |-> m.expiresAt]>>]
    /\ UNCHANGED <<now, ticks, store, created, reapedAt, nextId, nreq, okCreates, routing>>

FetchDelete(p) ==
    /\ slots[p].op = "fetch" /\ slots[p].pc = "delete"
    /\ \E answered \in BOOLEAN :
          IF ~answered
          THEN /\ slots' = [slots EXCEPT ![p] =
                              Response(@, 500, ErrServer, <<>>, "StoreError")]
               /\ UNCHANGED store
          ELSE /\ store' = DeleteById(slots[p].id.key)
               /\ slots' = [slots EXCEPT ![p] =
                              Response(@, 410, ErrGone, <<>>, "Gone")]
    /\ UNCHANGED <<now, ticks, created, reapedAt, nextId, nreq, okCreates, routing>>

----------------------------------------------------------------------------
(* The TTL monitor of the collection: index { expiresAt: 1 } with          *)
(* expireAfterSeconds 0.  A pass removes every document whose indexed date *)
(* plus the delay is not after the monitor's current time.                 *)

ExpireAfterSeconds == 0

TTLExpiredOnCreatedAt(t, m) == m.createdAt + 1000 * ExpireAfterSeconds <= t

TTLExpiredDelayed(t, m) == m.expiresAt + 1000 * 43200 <= t

TTLExpired(t, m) == m.expiresAt + 1000 * ExpireAfterSeconds <= t

Reap ==
    /\ LET gone == {m \in store : TTLExpired(now, m)} IN
       /\ store' = store \ gone
       /\ reapedAt' = reapedAt \cup {[doc |-> m, at |-> now] : m \in gone}
    /\ UNCHANGED <<now, ticks, created, slots, nextId, nreq, okCreates, routing>>

----------------------------------------------------------------------------
(* The wall clock *)

Tick(d) ==
    /\ ticks < MaxTicks
    /\ now' = now + d
    /\ ticks' = ticks + 1
    /\ UNCHANGED <<store, created, reapedAt, slots, nextId, nreq, okCreates, routing>>

----------------------------------------------------------------------------
(* The Express application of server.js: registration and dispatch *)

(* A path is its sequence of segments.  In a pattern, a segment that       *)
(* starts a parameter matches any one segment and "*" any remaining ones.  *)
Params == {":id"}

RECURSIVE PatternMatches(_, _, _)
PatternMatches(pat, path, prefix) ==
    IF pat = <<>> THEN prefix \/ path = <<>>
    ELSE IF pat[1] = "*" THEN path # <<>>
    ELSE /\ path # <<>>
         /\ pat[1] \in Params \/ pat[1] = path[1]
         /\ PatternMatches(Tail(pat), Tail(path), prefix)

Use(name, pat) == [name |-> name, kind |-> "use", method |-> "", pat |-> pat]

RouteLayer(name, method, pat) ==
    [name |-> name, kind |-> "route", method |-> method, pat |-> pat]

ErrorLayer(name) == [name |-> name, kind |-> "error", method |-> "", pat |-> <<>>]

(* The statements of the module script that act on the application, in     *)
(* source order.  mongoose.connect only starts the connection; its then    *)
(* callback runs later.                                                    *)
Script ==
    << [do |-> "register", layer |-> Use("cors", <<>>)],
       [do |-> "register", layer |-> RouteLayer("preflight", "OPTIONS", <<"*">>)],
       [do |-> "register", layer |-> Use("helmet", <<>>)],
       [do |-> "register", layer |-> Use("json", <<>>)],
       [do |-> "register", layer |-> Use("urlencoded", <<>>)],
       [do |-> "register", layer |-> Use("logger", <<>>)],
       [do |-> "register", layer |-> Use("static", <<>>)],
       [do |-> "register", layer |-> RouteLayer("health", "GET", <<"v1", "health">>)],
       [do |-> "connect", layer |-> Use("", <<>>)],
       [do |-> "register", layer |-> Use("apiNotFound", <<"api", "*">>)],
       [do |-> "register", layer |-> Use("catchAll", <<>>)],
       [do |-> "register", layer |-> ErrorLayer("errorHandler")] >>

(* The routes the then callback of mongoose.connect registers. *)
ApiRoutes ==
    << RouteLayer("create", "POST", <<"v1", "create">>),
       RouteLayer("fetch", "GET", <<"v1", "message", ":id">>) >>

PublicFiles == {<<"index.html">>}

Methods == {"GET", "POST", "OPTIONS"}

Paths ==
    { <<"v1", "create">>, <<"v1", "message", "65f0">>, <<"v1", "health">>,
      <<"api", "create">>, <<"index.html">>, <<"lihat", "65f0">> }

(* badBody: the request carries a JSON body that does not parse. *)
Requests ==
    {r \in [method : Methods, path : Paths, badBody : BOOLEAN] :
        r.badBody => r.method = "POST"}

LayerMatches(l, req) ==
    IF l.kind = "use" THEN PatternMatches(l.pat, req.path, TRUE)
    ELSE l.method = req.method /\ PatternMatches(l.pat, req.path, FALSE)

(* Whether the layer ends the request with a response, rather than         *)
(* calling next().                                                         *)
Responds(l, req) ==
    IF l.name = "cors" THEN req.method = "OPTIONS"
    ELSE IF l.name = "static"
         THEN req.method = "GET" /\ req.path \in PublicFiles
    ELSE l.name \notin {"helmet", "json", "urlencoded", "logger"}

(* Whether the layer calls next(err). *)
Throws(l, req) == l.name = "json" /\ req.badBody

(* The layer that answers the request: the first one, from position i of   *)
(* the stack, that matches and responds; after an error, the first error   *)
(* handler.  Express's final handler answers when the stack is exhausted.  *)
RECURSIVE Walk(_, _, _)
Walk(i, req, err) ==
    IF i > Len(stack) THEN "finalhandler"
    ELSE LET l == stack[i] IN
         IF err
         THEN IF l.kind = "error" THEN l.name ELSE Walk(i + 1, req, TRUE)
         ELSE IF l.kind = "error" THEN Walk(i + 1, req, FALSE)
         ELSE IF ~LayerMatches(l, req) THEN Walk(i + 1, req, FALSE)
         ELSE IF Responds(l, req) THEN l.name
         ELSE Walk(i + 1, req, Throws(l, req))

Dispatch(req) == Walk(1, req, FALSE)

(* The module script runs its next statement. *)
LoadStep ==
    /\ loaded < Len(Script)
    /\ loaded' = loaded + 1
    /\ LET st == Script[loaded + 1] IN
       IF st.do = "connect"
       THEN connect' = "pending" /\ UNCHANGED stack
       ELSE stack' = Append(stack, st.layer) /\ UNCHANGED connect
    /\ UNCHANGED served
    /\ UNCHANGED <<now, ticks, store, created, reapedAt, slots, nextId, nreq, okCreates>>

(* The connection is made: the then callback, which runs only after the    *)
(* module script has finished, registers the API routes and listens.       *)
ConnectResolved ==
    /\ connect = "pending"
    /\ loaded = Len(Script)
    /\ connect' = "resolved"
    /\ stack' = stack \o ApiRoutes
    /\ UNCHANGED <<loaded, served>>
    /\ UNCHANGED <<now, ticks, store, created, reapedAt, slots, nextId, nreq, okCreates>>

(* The connection fails: the catch callback ends the process. *)
ConnectRejected ==
    /\ connect = "pending"
    /\ loaded = Len(Script)
    /\ connect' = "rejected"
    /\ UNCHANGED <<stack, loaded, served>>
    /\ UNCHANGED <<now, ticks, store, created, reapedAt, slots, nextId, nreq, okCreates>>

Listening == connect = "resolved"

(* The listening server receives a request and the router answers it. *)
Route(req) ==
    /\ Listening
    /\ Cardinality(served) < MaxRouted
    /\ served' = served \cup {[req |-> req, by |-> Dispatch(req)]}
    /\ UNCHANGED <<stack, loaded, connect>>
    /\ UNCHANGED <<now, ticks, store, created, reapedAt, slots, nextId, nreq, okCreates>>

----------------------------------------------------------------------------

Init ==
    /\ now = 0
    /\ ticks = 0
    /\ store = {}
    /\ created = {}
    /\ reapedAt = {}
    /\ slots = [p \in Procs |-> Idle]
    /\ nextId = 1
    /\ nreq = 0
    /\ okCreates = 0
    /\ stack = <<>>
    /\ loaded = 0
    /\ connect = "idle"
    /\ served = {}

(* A create that builds a record is explored while fewer than MaxRecords   *)
(* records were built; a create that is rejected, always.                  *)
WithinRecords(c) ==
    IF nextId <= MaxRecords THEN TRUE
    ELSE IF EmptyCheck(c) THEN TRUE
    ELSE TooLongCheck(c)

Next ==
    \/ \E p \in Procs, c \in SampleContents, d \in BuildSteps :
          WithinRecords(c) /\ Create(p, c, d)
    \/ \E p \in Procs : CreateSave(p)
    \/ \E p \in Procs, id \in IdInputs : Fetch(p, id)
    \/ \E p \in Procs : FetchExpiry(p)
    \/ \E p \in Procs : FetchDelete(p)
    \/ Reap
    \/ \E d \in TickSteps : Tick(d)

Spec == Init /\ [][Next]_vars

(* One handler at a time and a clock that stands still, over every request *)
(* body of ContentInputs.                                                  *)
NextSequential ==
    \/ \E c \in ContentInputs : WithinRecords(c) /\ Create(1, c, 0)
    \/ CreateSave(1)
    \/ \E id \in IdInputs : Fetch(1, id)
    \/ FetchExpiry(1)

SpecSequential == Init /\ [][NextSequential]_vars

(* Concurrent creates alone, up to MaxCreates records.                     *)
NextCreates ==
    \/ \E p \in Procs, c \in SampleContents, d \in BuildSteps : Create(p, c, d)
    \/ \E p \in Procs : CreateSave(p)

SpecCreates == Init /\ [][NextCreates]_vars

(* One handler at a time, the clock and the TTL monitor.  The monitor is a *)
(* background task of the database that wakes up periodically: a pass      *)
(* that has something to remove is eventually made.                        *)
NextSolo ==
    \/ \E c \in SampleContents, d \in BuildSteps :
          WithinRecords(c) /\ Create(1, c, d)
    \/ CreateSave(1)
    \/ \E id \in IdInputs : Fetch(1, id)
    \/ FetchExpiry(1)
    \/ FetchDelete(1)
    \/ Reap
    \/ \E d \in TickSteps : Tick(d)

SpecFair == Init /\ [][NextSolo]_vars /\ WF_vars(Reap)

(* The application from the start of the module script to the requests it  *)
(* answers once it listens.                                                *)
NextRouting ==
    \/ LoadStep
    \/ ConnectResolved
    \/ ConnectRejected
    \/ \E req \in Requests : Route(req)

SpecRouting == Init /\ [][NextRouting]_vars

----------------------------------------------------------------------------
(* Properties *)

Fetched(p) == slots[p].op = "fetch" /\ slots[p].pc = "done"

Created(p) == slots[p].op = "create" /\ slots[p].pc = "done"

StoreFailed(p) == slots[p].cause = "StoreError"

SawExpired(p) ==
    /\ slots[p].op = "fetch"
    /\ slots[p].message # <<>>
    /\ slots[p].sampled # <<>>
    /\ slots[p].sampled[1] > slots[p].message[1].expiresAt

EverCreated(k) == \E r \in created : r.doc._id = k

(* C1: a fetch that answers with a message sampled the clock at a time not *)
(* after the expiresAt of the record it returns, and returns that record's *)
(* content; this does not depend on the TTL monitor having run.            *)
C1_NoExpiredRecordReturned ==
    \A p \in Procs :
        (slots[p].op = "fetch" /\ slots[p].status = 200) =>
            /\ slots[p].sampled # <<>>
            /\ slots[p].message # <<>>
            /\ slots[p].sampled[1] <= slots[p].message[1].expiresAt
            /\ slots[p].data[1].content = slots[p].message[1].content
            /\ slots[p].data[1].expiresAt = slots[p].message[1].expiresAt

(* A fetch has read a record, sampled the clock after the record's         *)
(* expiresAt and is refusing it, while the record is still in the store    *)
(* and the TTL monitor has never removed anything.                         *)
C1_Witness ==
    \E p \in Procs :
        /\ SawExpired(p)
        /\ slots[p].pc = "delete"
        /\ slots[p].message[1] \in store
        /\ reapedAt = {}

(* C2: a create whose content, trimmed, has 1..5000 characters succeeds,   *)
(* and a fetch of a created id that answers with a message answers with    *)
(* the trimmed content of the request that created it.                     *)
C2_ValidContentRoundTrip ==
    /\ \A p \in Procs :
          (/\ Created(p)
           /\ ~StoreFailed(p)
           /\ slots[p].content # <<>>
           /\ StrLen(Trim(slots[p].content[1])) >= 1
           /\ StrLen(Trim(slots[p].content[1])) <= MaxContent)
              => slots[p].status = 201
    /\ \A p \in Procs : \A r \in created :
          (Fetched(p) /\ slots[p].status = 200 /\ r.doc._id = slots[p].id.key)
              => slots[p].data[1].content = Trim(r.raw)

(* C3: a fetch that found an expired record still in the store answers as  *)
(* a fetch of a well-formed id that was never created does.                *)
C3_ExpiredSameAsNeverCreated ==
    \A p, q \in Procs :
        (/\ Fetched(p) /\ SawExpired(p) /\ ~StoreFailed(p)
         /\ Fetched(q) /\ ~StoreFailed(q)
         /\ CastsToObjectId(slots[q].id)
         /\ ~EverCreated(slots[q].id.key))
            => /\ slots[p].status = slots[q].status
               /\ slots[p].error = slots[q].error

(* C4: a fetch made after the record's expiresAt answers 404 not found,    *)
(* and once it has answered the record is no longer in the store.          *)
C4_IdempotentExpiry ==
    \A p \in Procs :
        (Fetched(p) /\ SawExpired(p) /\ ~StoreFailed(p)) =>
            /\ slots[p].status = 404
            /\ slots[p].error = ErrNotFound
            /\ FindById(slots[p].id.key) = {}

(* C5: two fetches of one expired id that both read the record before     *)
(* either deleted it both answer 404 not found, and neither fails.         *)
C5_ConcurrentExpiredFetches ==
    \A p, q \in Procs :
        (/\ p # q
         /\ Fetched(p) /\ SawExpired(p) /\ ~StoreFailed(p)
         /\ Fetched(q) /\ SawExpired(q) /\ ~StoreFailed(q)
         /\ slots[p].id = slots[q].id)
            => /\ slots[p].status = 404
               /\ slots[q].status = 404

(* C6: every record ever inserted, and every record in the store, has      *)
(* expiresAt equal to createdAt plus twelve hours.                         *)
C6_ExpiresAtIsCreatedAtPlusTTL ==
    /\ \A r \in created : r.doc.expiresAt = r.doc.createdAt + TTL
    /\ \A m \in store : m.expiresAt = m.createdAt + TTL

(* C7, as claimed: whatever the TTL monitor removed was no longer live     *)
(* when it was removed, live meaning that the time is at most expiresAt.   *)
C7_ReaperNeverDeletesLive ==
    \A r \in reapedAt : ~(r.at <= r.doc.expiresAt)

(* C7, amended: whatever the TTL monitor removed had an expiresAt that was *)
(* not after the time of the removal, so a pass made while no record has   *)
(* expiresAt <= now removes nothing.                                       *)
C7_ReaperDeletesOnlyDue ==
    \A r \in reapedAt : r.doc.expiresAt <= r.at

(* The TTL monitor has removed a record.                                   *)
C7_Witness ==
    \E r \in reapedAt : r.doc \notin store

(* C8: a fetch of an id of length 24 that was never created answers 404    *)
(* not found.                                                              *)
C8_WellShapedUnknownIdNotFound ==
    \A p \in Procs :
        (/\ Fetched(p) /\ ~StoreFailed(p)
         /\ slots[p].id.len = IdLength
         /\ ~EverCreated(slots[p].id.key))
            => /\ slots[p].status = 404
               /\ slots[p].error = ErrNotFound

(* C9: the step in which a fetch of an id that is absent or not 24 long    *)
(* is answered answers 400 invalid id, has read no record and leaves the   *)
(* store as it was.                                                        *)
C9_InvalidIdLeavesStore ==
    [][\A p \in Procs :
          (/\ slots'[p] # slots[p]
           /\ slots'[p].op = "fetch"
           /\ slots'[p].pc = "done"
           /\ slots'[p].id.len # IdLength)
              => /\ slots'[p].status = 400
                 /\ slots'[p].error = ErrInvalidId
                 /\ slots'[p].message = <<>>
                 /\ store' = store]_vars

(* A fetch of an id that is not 24 long has been answered while the store  *)
(* holds a record.                                                         *)
C9_Witness ==
    \E p \in Procs :
        /\ Fetched(p)
        /\ slots[p].id.len # IdLength
        /\ slots[p].status = 400
        /\ store # {}

(* C10: a create whose content, trimmed, has more than 5000 characters     *)
(* answers 400 too long and builds no record; no record was ever inserted  *)
(* from such a content, and no stored content is longer than 5000.         *)
C10_TooLongRejected ==
    /\ \A p \in Procs :
          (/\ Created(p)
           /\ slots[p].content # <<>>
           /\ StrLen(Trim(slots[p].content[1])) > MaxContent)
              => /\ slots[p].status = 400
                 /\ slots[p].error = ErrTooLong
                 /\ slots[p].message = <<>>
    /\ \A r \in created : StrLen(Trim(r.raw)) <= MaxContent
    /\ \A m \in store : StrLen(m.content) <= MaxContent

(* A create whose trimmed content is too long has been answered.           *)
C10_Witness ==
    \E p \in Procs :
        /\ Created(p)
        /\ slots[p].content # <<>>
        /\ StrLen(Trim(slots[p].content[1])) > MaxContent
        /\ slots[p].status = 400

(* A request content that is missing, empty or made of whitespace only.    *)
Blank(c) == c = <<>> \/ \A i \in 1..Len(c[1]) : IsSpace(c[1][i].ch)

(* C11: the step in which a create with missing, empty or whitespace-only  *)
(* content is answered answers 400 empty content, has built no record and  *)
(* leaves the store and the set of inserted records as they were.          *)
C11_EmptyRejected ==
    [][\A p \in Procs :
          (/\ slots'[p] # slots[p]
           /\ slots'[p].op = "create"
           /\ slots'[p].pc = "done"
           /\ Blank(slots'[p].content))
              => /\ slots'[p].status = 400
                 /\ slots'[p].error = ErrEmpty
                 /\ slots'[p].message = <<>>
                 /\ store' = store
                 /\ created' = created]_vars

(* A create with whitespace-only content has been answered while the       *)
(* store holds a record.                                                   *)
C11_Witness ==
    \E p \in Procs :
        /\ Created(p)
        /\ slots[p].content # <<>>
        /\ slots[p].content[1] # <<>>
        /\ Blank(slots[p].content)
        /\ slots[p].status = 400
        /\ store # {}

(* C12: the step in which a fetch answers with a message leaves the store  *)
(* as it was, answers with the content, createdAt and expiresAt of the     *)
(* record it read, and answers as every earlier successful fetch of the    *)
(* same id still on record did.                                            *)
C12_LiveReadLeavesStore ==
    [][\A p \in Procs :
          (/\ slots'[p] # slots[p]
           /\ slots'[p].op = "fetch"
           /\ slots'[p].status = 200)
              => /\ store' = store
                 /\ slots'[p].data =
                       <<[content |-> slots[p].message[1].content,
                          createdAt |-> slots[p].message[1].createdAt,
                          expiresAt |-> slots[p].message[1].expiresAt]>>
                 /\ \A q \in Procs :
                       (/\ q # p
                        /\ slots[q].op = "fetch"
                        /\ slots[q].status = 200
                        /\ slots[q].id = slots[p].id)
                           => slots'[p].data = slots[q].data]_vars

(* Two fetches of one id have both answered with the message, and the      *)
(* record is still in the store.                                           *)
C12_Witness ==
    \E p, q \in Procs :
        /\ p # q
        /\ Fetched(p) /\ slots[p].status = 200
        /\ Fetched(q) /\ slots[q].status = 200
        /\ slots[p].id = slots[q].id
        /\ slots[p].message[1] \in store

Due(k) == \E m \in store : m._id = k /\ m.expiresAt < now

C14_SuccessOnlyAfterInsert ==
    [][\A p \in Procs :
          (/\ slots[p].op = "create"
           /\ slots[p].pc = "save"
           /\ slots'[p].pc = "done")
              => /\ slots'[p].status \in {201, 500}
                 /\ slots'[p].status = 201 =>
                       /\ slots[p].message[1] \in store'
                       /\ slots'[p].cause # "StoreError"
                       /\ slots'[p].data =
                             <<[id |-> ObjectIdString(slots[p].message[1]._id),
                                expiresAt |-> slots[p].message[1].expiresAt]>>
                 /\ slots[p].message[1] \notin store' => slots'[p].status = 500
                 /\ slots'[p].cause = "StoreError" =>
                       slots'[p].status = 500 /\ slots'[p].data = <<>>]_vars

(* A create whose insert failed has been answered 500, and its record is   *)
(* not in the store.                                                       *)
C14_Witness ==
    \E p \in Procs :
        /\ Created(p)
        /\ StoreFailed(p)
        /\ slots[p].status = 500
        /\ slots[p].message # <<>>
        /\ slots[p].message[1] \notin store

UniqueIds == \A r1, r2 \in created : r1.doc._id = r2.doc._id => r1 = r2

(* C15, as claimed: the number of records ever stored equals the number    *)
(* of creates answered 201, and no two records share an id.                *)
C15_OneRecordPerSuccess ==
    /\ Cardinality(created) = okCreates
    /\ UniqueIds

(* C15, amended: every create answered 201 stored exactly one record of    *)
(* its own, so at least as many records were stored as creates were        *)
(* answered 201, and no two records share an id.                           *)
C15_OneRecordPerSuccessAtLeast ==
    /\ okCreates <= Cardinality(created)
    /\ UniqueIds
    /\ \A p \in Procs :
          (Created(p) /\ slots[p].status = 201) =>
              Cardinality({r \in created :
                              ObjectIdString(r.doc._id) = slots[p].data[1].id}) = 1
    /\ \A p, q \in Procs :
          (/\ p # q
           /\ Created(p) /\ slots[p].status = 201
           /\ Created(q) /\ slots[q].status = 201)
              => slots[p].data[1].id # slots[q].data[1].id

(* Two creates that ran concurrently have both been answered 201.          *)
C15_Witness ==
    /\ okCreates = 2
    /\ \A p \in Procs : Created(p) /\ slots[p].status = 201

(* C16: every record in the store, and every record ever inserted, has a   *)
(* content that is not empty, neither starts nor ends with whitespace, and *)
(* has at most 5000 characters.                                            *)
C16_ContentAtRest ==
    \A m \in store \cup {r.doc : r \in created} :
        /\ m.content # <<>>
        /\ ~IsSpace(m.content[1].ch)
        /\ ~IsSpace(m.content[Len(m.content)].ch)
        /\ StrLen(m.content) >= 1
        /\ StrLen(m.content) <= MaxContent

(* A record whose request content had whitespace around it is in the       *)
(* store.                                                                  *)
C16_Witness ==
    \E r \in created :
        /\ r.doc \in store
        /\ r.raw # r.doc.content
        /\ IsSpace(r.raw[1].ch)
        /\ IsSpace(r.raw[Len(r.raw)].ch)

(* C17: every POST /v1/create with a well-formed body that the listening   *)
(* server has answered was answered by the create handler, and every       *)
(* GET /v1/message/:id by the fetch handler.                               *)
C17_ApiRequestsReachHandlers ==
    \A s \in served :
        /\ (/\ s.req.method = "POST"
            /\ s.req.path = <<"v1", "create">>
            /\ ~s.req.badBody) => s.by = "create"
        /\ (/\ s.req.method = "GET"
            /\ Len(s.req.path) = 3
            /\ s.req.path[1] = "v1"
            /\ s.req.path[2] = "message") => s.by = "fetch"

====
